---- MODULE Spec2Model ----
(***************************************************************************)
(* Model of the distillation runner (src/src/mimic_runner.py), the         *)
(* checkpoint helpers (src/src/utils/model_util.py) and the R-CNN splitter *)
(* (src/src/models/mimic/split_rcnn.py).                                   *)
(*                                                                         *)
(* mimic_runner.py imports load_ckpt, get_model and save_ckpt from the     *)
(* package `models`.  The definitions available are those of               *)
(* utils/model_util.py.  distill passes a best value to save_ckpt and      *)
(* unpacks a best value from load_ckpt; model_util.py has neither, so the  *)
(* best_value field of the checkpoint and its return from load_ckpt are    *)
(* modelled from the specification (BestValueField, BestValueOf); all the  *)
(* rest follows model_util.py.                                             *)
(*                                                                         *)
(* Validation mAP values are scaled to small naturals (0 stands for 0.0);  *)
(* model parameters, optimizer state and scheduler state are counters.     *)
(***************************************************************************)
EXTENDS Naturals, Sequences, FiniteSets, TLC

\* ---------------------------------------------------------------- bounds
NumWorkers == 2
MaxEpochs == 2
NumBatches == 2
MaxMap == 2

Ranks == 0 .. (NumWorkers - 1)
MapValues == 0 .. MaxMap
ModelTypes == {"faster_rcnn", "yolov3", "unknown"}

VARIABLES
    program,         \* the entry point that runs: "mimic_runner" or "split"
    split,           \* the state of a caller of split_rcnn_model
    args,            \* the parsed command line (get_argparser)
    config,          \* the effective configuration
    world_size,      \* number of worker processes of the run
    ckpt_file,       \* the file at config['student_model']['ckpt']
    teacher_file,    \* the file at config['teacher_model']['ckpt']
    pc,              \* per worker: position in main / distill / evaluate
    epoch,           \* per worker: loop variable of distill
    batch,           \* per worker: batches done in the current distill_model call
    teacher_model,   \* per worker
    student_model,   \* per worker
    optimizer,       \* per worker
    lr_scheduler,    \* per worker: the epoch-level scheduler
    best_val_map,    \* per worker
    val_map,         \* per worker: mAP of the last validation
    arrived,         \* workers that have entered dist.barrier()
    ckpt_reads,      \* per worker: checkpoint files read so far
    error,           \* per worker: the exception that ended it, or "none"
    warmup,          \* per worker: the warm-up scheduler of distill_model
    batch_log,       \* per worker: the calls made for the last batch, in order
    evaluated        \* per worker: the test evaluations done by evaluate, in order

vars == <<program, split, args, config, world_size, ckpt_file, teacher_file, pc, epoch, batch,
          teacher_model, student_model, optimizer, lr_scheduler, best_val_map,
          val_map, arrived, ckpt_reads, error, warmup, batch_log,
          evaluated>>

runnerVars == <<args, config, world_size, ckpt_file, teacher_file, pc, epoch, batch,
                teacher_model, student_model, optimizer, lr_scheduler, best_val_map,
                val_map, arrived, ckpt_reads, error, warmup, batch_log,
          evaluated>>

\* ------------------------------------------------------- values and files
Active == 0 .. (world_size - 1)
distributed == world_size > 1

\* utils.misc_util.is_main_process: the worker of rank 0
is_main_process(w) == w = 0

\* the two groups of parameters of a model: those of the modules listed in
\* the configuration's frozen_modules ("frozen") and all the others ("params")
AllRequireGrad == [params |-> TRUE, frozen |-> TRUE]
NoGrad == [params |-> 0, frozen |-> 0]

\* A module as built by the model factory: parameters, the two mode switches
\* that mimic_runner sets on it, and whether it is wrapped (DataParallel /
\* DistributedDataParallel).
NewModel(kind) ==
    [kind |-> kind, params |-> 0, frozen |-> 0, requires_grad |-> AllRequireGrad,
     grad |-> NoGrad, wrapped |-> FALSE, training |-> TRUE,
     distill_backbone_only |-> FALSE, use_bottleneck_transformer |-> FALSE]

NoModel == [kind |-> "none", params |-> 0, frozen |-> 0, requires_grad |-> AllRequireGrad,
            grad |-> NoGrad, wrapped |-> FALSE, training |-> TRUE,
            distill_backbone_only |-> FALSE, use_bottleneck_transformer |-> FALSE]

\* module_util.freeze_module_params(module): requires_grad = False on every
\* parameter of the module
freeze_module_params(m, groups) ==
    [m EXCEPT !.requires_grad = [g \in DOMAIN @ |-> IF g \in groups THEN FALSE ELSE @[g]]]

\* freeze_modules(student_model, student_model_config)
freeze_modules(m) == freeze_module_params(m, {"frozen"})

NewOptimizer == [steps |-> 0]
NewScheduler == [last_epoch |-> 0]

\* distill_model, line 42: lr_scheduler = None
NoWarmup == [exists |-> FALSE, warmup_iters |-> 0, steps |-> 0]

\* distill_model, line 45: warmup_iters = min(1000, len(data_loader) - 1)
WarmupCap == 1000
warmup_iters(len_data_loader) ==
    IF WarmupCap < len_data_loader - 1 THEN WarmupCap ELSE len_data_loader - 1

\* distill_model, line 46: main_util.warmup_lr_scheduler(optimizer, warmup_iters, ...)
warmup_lr_scheduler(iters) == [exists |-> TRUE, warmup_iters |-> iters, steps |-> 0]

\* (a warm-up that is set up in every epoch)
WarmupEpoch_every(e) == TRUE

\* distill_model, line 43: if epoch == 0
WarmupEpoch(e) == e = 0

\* state_dict(): the keys of a wrapped module carry the prefix "module."
state_dict(m) ==
    [prefix |-> IF m.wrapped THEN "module." ELSE "", params |-> m.params,
     frozen |-> m.frozen]

\* model.module if isinstance(model, DistributedDataParallel) else model
without_ddp(m) == IF m.wrapped THEN [m EXCEPT !.wrapped = FALSE] ELSE m

NoFile ==
    [exists |-> FALSE, model |-> [prefix |-> "", params |-> 0, frozen |-> 0],
     optimizer |-> NewOptimizer, lr_scheduler |-> NewScheduler, best_value |-> 0]

\* a checkpoint left by an earlier run
PrevCkpt ==
    [exists |-> TRUE, model |-> [prefix |-> "", params |-> 5, frozen |-> 7],
     optimizer |-> [steps |-> 4], lr_scheduler |-> [last_epoch |-> 2], best_value |-> 1]

\* the teacher's pretrained checkpoint
TeacherCkpt ==
    [exists |-> TRUE, model |-> [prefix |-> "", params |-> 9, frozen |-> 3],
     optimizer |-> NewOptimizer, lr_scheduler |-> NewScheduler, best_value |-> 0]

\* file_util.check_if_exists
check_if_exists(f) == f.exists

\* ------------------------------------------------------ checkpoint helpers
\* (a load that leaves the module as it was)
load_state_dict_keep(m, sd) == [ok |-> TRUE, model |-> m]

\* Module.load_state_dict (strict): the keys must be the module's own
load_state_dict(m, sd) ==
    IF sd.prefix = state_dict(m).prefix
    THEN [ok |-> TRUE, model |-> [m EXCEPT !.params = sd.params, !.frozen = sd.frozen]]
    ELSE [ok |-> FALSE, model |-> m]

\* the best value stored in a checkpoint and handed back by load_ckpt
BestValueField(best_value) == best_value
BestValueOf(ckpt) == ckpt.best_value

\* save_ckpt up to the call of save_on_master: the dictionary that is saved
save_ckpt(m, o, s, best_value) ==
    [exists |-> TRUE,
     model |-> IF m.wrapped THEN state_dict(without_ddp(m)) ELSE state_dict(m),
     optimizer |-> o, lr_scheduler |-> s,
     best_value |-> BestValueField(best_value)]

\* utils.misc_util.save_on_master: torch.save on the main process only
save_on_master(w, obj, f) == IF is_main_process(w) THEN obj ELSE f

\* load_ckpt(ckpt_file_path, model, optimizer, lr_scheduler); hasM, hasO, hasS
\* say which of the three were given (not None).  read: the file was opened;
\* raised: an exception left load_ckpt; found: a checkpoint was returned (the
\* missing path returns None for every value).
\* (a load that forgets the scheduler)
load_ckpt_found_skipScheduler(f, m, hasM, o, hasO, s, hasS) ==
    LET r == IF hasM THEN load_state_dict(m, f.model) ELSE [ok |-> TRUE, model |-> m]
    IN  IF ~f.exists \/ ~r.ok
        THEN [raised |-> TRUE, read |-> f.exists, found |-> FALSE, model |-> m,
              optimizer |-> o, lr_scheduler |-> s, best_value |-> 0]
        ELSE [raised |-> FALSE, read |-> TRUE, found |-> TRUE, model |-> r.model,
              optimizer |-> IF hasO THEN f.optimizer ELSE o,
              lr_scheduler |-> s,
              best_value |-> BestValueOf(f)]

\* The part after the existence check: torch.load and the three loads.
load_ckpt_found(f, m, hasM, o, hasO, s, hasS) ==
    LET r == IF hasM THEN load_state_dict(m, f.model) ELSE [ok |-> TRUE, model |-> m]
    IN  IF ~f.exists \/ ~r.ok
        THEN [raised |-> TRUE, read |-> f.exists, found |-> FALSE, model |-> m,
              optimizer |-> o, lr_scheduler |-> s, best_value |-> 0]
        ELSE [raised |-> FALSE, read |-> TRUE, found |-> TRUE, model |-> r.model,
              optimizer |-> IF hasO THEN f.optimizer ELSE o,
              lr_scheduler |-> IF hasS THEN f.lr_scheduler ELSE s,
              best_value |-> BestValueOf(f)]

\* (a load without the existence check: torch.load raises on a missing file)
load_ckpt_unchecked(f, m, hasM, o, hasO, s, hasS) ==
    load_ckpt_found(f, m, hasM, o, hasO, s, hasS)

load_ckpt(f, m, hasM, o, hasO, s, hasS) ==
    IF ~check_if_exists(f)
    THEN [raised |-> FALSE, read |-> FALSE, found |-> FALSE, model |-> m,
          optimizer |-> o, lr_scheduler |-> s, best_value |-> 0]
    ELSE load_ckpt_found(f, m, hasM, o, hasO, s, hasS)

\* rcnn.MODEL_CLASS_DICT
InModelClassDict(model_type) == model_type = "faster_rcnn"
StartsWithYolo(model_type) == model_type = "yolov3"

\* (a factory without the final else branch)
get_model_noTypeCheck(model_type, f) ==
    LET l == load_ckpt(f, NewModel(model_type), TRUE,
                       NewOptimizer, FALSE, NewScheduler, FALSE)
    IN  [raised |-> IF l.raised THEN "RuntimeError" ELSE "none",
         called_load_ckpt |-> TRUE, read |-> l.read, model |-> l.model]

\* get_model(model_config, device): raised "ValueError" for an unexpected
\* type, before the checkpoint path is looked at
get_model(model_type, f) ==
    IF InModelClassDict(model_type) \/ StartsWithYolo(model_type)
    THEN LET l == load_ckpt(f, NewModel(model_type), TRUE,
                            NewOptimizer, FALSE, NewScheduler, FALSE)
         IN  [raised |-> IF l.raised THEN "RuntimeError" ELSE "none",
              called_load_ckpt |-> TRUE, read |-> l.read, model |-> l.model]
    ELSE [raised |-> "ValueError", called_load_ckpt |-> FALSE, read |-> FALSE,
          model |-> NoModel]

\* ------------------------------------------------------------------ Init
PerWorker(v) == [w \in Ranks |-> v]

RunnerInit ==
    /\ args \in [distill : BOOLEAN, skip_teacher_eval : BOOLEAN,
                 transform_bottleneck : BOOLEAN]
    /\ config \in [teacher_type : ModelTypes,
                   student_type : {"faster_rcnn", "unknown"},
                   distill_backbone_only : BOOLEAN,
                   num_epochs : 0 .. MaxEpochs]
    /\ world_size \in 1 .. NumWorkers
    /\ ckpt_file \in {NoFile, PrevCkpt}
    /\ teacher_file \in {NoFile, TeacherCkpt}
    /\ pc = [w \in Ranks |-> IF w < world_size THEN "get_teacher" ELSE "absent"]
    /\ epoch = PerWorker(0)
    /\ batch = PerWorker(0)
    /\ teacher_model = PerWorker(NoModel)
    /\ student_model = PerWorker(NoModel)
    /\ optimizer = PerWorker(NewOptimizer)
    /\ lr_scheduler = PerWorker(NewScheduler)
    /\ best_val_map = PerWorker(0)
    /\ val_map = PerWorker(0)
    /\ arrived = {}
    /\ ckpt_reads = PerWorker({})
    /\ error = PerWorker("none")
    /\ warmup = PerWorker(NoWarmup)
    /\ batch_log = PerWorker(<<>>)
    /\ evaluated = PerWorker(<<>>)

\* an exception leaves main: the worker process ends
Raise(w, e) ==
    /\ pc' = [pc EXCEPT ![w] = "crashed"]
    /\ error' = [error EXCEPT ![w] = e]

\* ------------------------------------------------------------ main: setup
\* main, line 131-132: teacher_model = get_model(config['teacher_model'], device)
\* and module_util.freeze_module_params(teacher_model)
GetTeacherModel(w) ==
    /\ pc[w] = "get_teacher"
    /\ LET g == get_model(config.teacher_type, teacher_file)
       IN  /\ ckpt_reads' = [ckpt_reads EXCEPT
                               ![w] = IF g.read THEN @ \cup {"teacher"} ELSE @]
           /\ IF g.raised # "none"
              THEN /\ Raise(w, g.raised)
                   /\ UNCHANGED teacher_model
              ELSE /\ teacher_model' = [teacher_model EXCEPT
                          ![w] = freeze_module_params(g.model, {"params", "frozen"})]
                   /\ pc' = [pc EXCEPT ![w] = "get_student"]
                   /\ UNCHANGED error
    /\ UNCHANGED <<program, split, evaluated, batch_log, warmup, args, config, world_size, ckpt_file, teacher_file, epoch, batch,
                   student_model, optimizer, lr_scheduler, best_val_map, val_map,
                   arrived>>

\* main, line 133-135: student_model = get_model(student_model_config, device)
\* and freeze_modules(student_model, student_model_config)
GetStudentModel(w) ==
    /\ pc[w] = "get_student"
    /\ LET g == get_model(config.student_type, ckpt_file)
       IN  /\ ckpt_reads' = [ckpt_reads EXCEPT
                               ![w] = IF g.read THEN @ \cup {"student"} ELSE @]
           /\ IF g.raised # "none"
              THEN /\ Raise(w, g.raised)
                   /\ UNCHANGED student_model
              ELSE /\ student_model' = [student_model EXCEPT ![w] = freeze_modules(g.model)]
                   /\ pc' = [pc EXCEPT ![w] = "dispatch"]
                   /\ UNCHANGED error
    /\ UNCHANGED <<program, split, evaluated, batch_log, warmup, args, config, world_size, ckpt_file, teacher_file, epoch, batch,
                   teacher_model, optimizer, lr_scheduler, best_val_map, val_map,
                   arrived>>

\* main, line 141-145: wrap both models when distributed, then distill or
\* go straight to evaluate
Dispatch(w) ==
    /\ pc[w] = "dispatch"
    /\ teacher_model' = [teacher_model EXCEPT ![w].wrapped = distributed]
    /\ student_model' = [student_model EXCEPT ![w].wrapped = distributed]
    /\ pc' = [pc EXCEPT ![w] = IF args.distill THEN "distill" ELSE "evaluate"]
    /\ UNCHANGED <<program, split, evaluated, batch_log, warmup, args, config, world_size, ckpt_file, teacher_file, epoch, batch,
                   optimizer, lr_scheduler, best_val_map, val_map, arrived,
                   ckpt_reads, error>>

\* --------------------------------------------------------------- distill
\* distill, line 64-81: fresh optimizer and scheduler, best_val_map = 0.0,
\* and the resume from the student's checkpoint when the file exists
DistillInit(w) ==
    /\ pc[w] = "distill"
    /\ LET l == IF check_if_exists(ckpt_file)
                THEN load_ckpt(ckpt_file, NoModel, FALSE, NewOptimizer, TRUE,
                               NewScheduler, TRUE)
                ELSE [raised |-> FALSE, read |-> FALSE, found |-> FALSE,
                      model |-> NoModel, optimizer |-> NewOptimizer,
                      lr_scheduler |-> NewScheduler, best_value |-> 0]
       IN  /\ optimizer' = [optimizer EXCEPT ![w] = l.optimizer]
           /\ lr_scheduler' = [lr_scheduler EXCEPT ![w] = l.lr_scheduler]
           /\ best_val_map' = [best_val_map EXCEPT ![w] = l.best_value]
           /\ ckpt_reads' = [ckpt_reads EXCEPT
                               ![w] = IF l.read THEN @ \cup {"student"} ELSE @]
    /\ epoch' = [epoch EXCEPT ![w] = 0]
    /\ pc' = [pc EXCEPT ![w] = "epoch"]
    /\ UNCHANGED <<program, split, evaluated, batch_log, warmup, args, config, world_size, ckpt_file, teacher_file, batch,
                   teacher_model, student_model, val_map, arrived, error>>

\* (a training phase that takes the switch from the command line)
TrainingUseBottleneckTransformer_fromArgs == args.transform_bottleneck

\* distill, line 90: ...layer1.use_bottleneck_transformer = False
TrainingUseBottleneckTransformer == FALSE

\* distill, line 82-91: the loop test, then teacher.eval(), student.train()
\* and the three switches of the training phase; distill_model, line 39-46:
\* the warm-up scheduler of the first epoch
EpochBegin(w) ==
    /\ pc[w] = "epoch"
    /\ epoch[w] < config.num_epochs
    /\ teacher_model' = [teacher_model EXCEPT
            ![w].training = FALSE,
            ![w].distill_backbone_only = config.distill_backbone_only]
    /\ student_model' = [student_model EXCEPT
            ![w].training = TRUE,
            ![w].distill_backbone_only = config.distill_backbone_only,
            ![w].use_bottleneck_transformer = TrainingUseBottleneckTransformer]
    /\ batch' = [batch EXCEPT ![w] = 0]
    /\ warmup' = [warmup EXCEPT
            ![w] = IF WarmupEpoch(epoch[w])
                   THEN warmup_lr_scheduler(warmup_iters(NumBatches))
                   ELSE NoWarmup]
    /\ pc' = [pc EXCEPT ![w] = "train"]
    /\ UNCHANGED <<program, split, evaluated, batch_log, args, config, world_size, ckpt_file, teacher_file, epoch,
                   optimizer, lr_scheduler, best_val_map, val_map, arrived,
                   ckpt_reads, error>>

\* loss.backward() on a DistributedDataParallel student reduces the gradients
\* over all workers: batch b of epoch e completes on one worker only when
\* every worker has started it
Arrived(v, e, b) ==
    \/ epoch[v] > e /\ pc[v] \in {"epoch", "train", "validate", "ckpt", "saving", "sched"}
    \/ pc[v] \in {"barrier", "barrier_wait", "post_load", "evaluate",
                  "eval_teacher", "eval_student", "done"}
    \/ /\ epoch[v] = e
       /\ \/ pc[v] = "train" /\ batch[v] >= b
          \/ pc[v] \in {"validate", "ckpt", "saving", "sched"}

\* The calls of one batch act on the student, the optimizer built on it, the
\* warm-up scheduler and the loss of the batch.
\* line 51: loss = distillation_box(images, targets), the forward of the
\* teacher and of the student (the loss of a batch is one unit)
distillation_box(st) == [st EXCEPT !.loss = 1]

\* line 52: optimizer.zero_grad()
zero_grad(st) == [st EXCEPT !.student.grad = NoGrad]

\* line 53: loss.backward() adds the gradient of the loss to the grad of
\* every parameter that requires grad
backward(st) ==
    [st EXCEPT !.student.grad =
        [g \in DOMAIN @ |-> IF st.student.requires_grad[g] THEN @[g] + st.loss ELSE @[g]]]

\* line 54: optimizer.step() moves every parameter by its grad
optimizer_step(st) ==
    [st EXCEPT !.student.params = @ + st.student.grad.params,
               !.student.frozen = @ + st.student.grad.frozen,
               !.optimizer.steps = @ + 1]

\* line 55-56: lr_scheduler.step() of the warm-up scheduler
warmup_step(st) == [st EXCEPT !.warmup.steps = @ + 1]

ApplyCall(name, st) ==
    CASE name = "distillation_box" -> distillation_box(st)
      [] name = "zero_grad" -> zero_grad(st)
      [] name = "backward" -> backward(st)
      [] name = "optimizer.step" -> optimizer_step(st)
      [] name = "lr_scheduler.step" -> warmup_step(st)

RECURSIVE ApplyCalls(_, _)
ApplyCalls(names, st) ==
    IF names = <<>> THEN st
    ELSE ApplyCalls(Tail(names), ApplyCall(Head(names), st))

\* (a loop body that resets the gradients after backward)
BatchCalls_resetAfterBackward(has_warmup) ==
    <<"distillation_box", "backward", "zero_grad", "optimizer.step">>
    \o (IF has_warmup THEN <<"lr_scheduler.step">> ELSE <<>>)

\* distill_model, line 51-56: the calls of the loop body, in order
BatchCalls(has_warmup) ==
    <<"distillation_box", "zero_grad", "backward", "optimizer.step">>
    \o (IF has_warmup THEN <<"lr_scheduler.step">> ELSE <<>>)

\* distill_model, line 48-59: one batch
TrainBatch(w) ==
    /\ pc[w] = "train"
    /\ batch[w] < NumBatches
    /\ \A v \in Active : Arrived(v, epoch[w], batch[w])
    /\ LET calls == BatchCalls(warmup[w].exists)
           r == ApplyCalls(calls, [student |-> student_model[w],
                                   optimizer |-> optimizer[w],
                                   warmup |-> warmup[w], loss |-> 0])
       IN  /\ student_model' = [student_model EXCEPT ![w] = r.student]
           /\ optimizer' = [optimizer EXCEPT ![w] = r.optimizer]
           /\ warmup' = [warmup EXCEPT ![w] = r.warmup]
           /\ batch_log' = [batch_log EXCEPT ![w] = calls]
    /\ batch' = [batch EXCEPT ![w] = @ + 1]
    /\ UNCHANGED <<program, split, evaluated, args, config, world_size, ckpt_file, teacher_file, pc, epoch,
                   teacher_model, lr_scheduler, best_val_map, val_map, arrived,
                   ckpt_reads, error>>

\* (a validation phase that keeps the training value)
ValidationBackboneOnly_keep == config.distill_backbone_only

\* distill, line 92: student_model_without_ddp.distill_backbone_only = False
ValidationBackboneOnly == FALSE

\* distill, line 92-93: the data loader is exhausted and distill_model returns
\* (its warm-up scheduler is a local of the call); the student's switches of
\* the validation phase
EndTraining(w) ==
    /\ pc[w] = "train"
    /\ batch[w] = NumBatches
    /\ student_model' = [student_model EXCEPT
            ![w].distill_backbone_only = ValidationBackboneOnly,
            ![w].use_bottleneck_transformer = args.transform_bottleneck]
    /\ warmup' = [warmup EXCEPT ![w] = NoWarmup]
    /\ pc' = [pc EXCEPT ![w] = "validate"]
    /\ UNCHANGED <<program, split, evaluated, batch_log, args, config, world_size, ckpt_file, teacher_file, epoch, batch,
                   teacher_model, optimizer, lr_scheduler, best_val_map, val_map,
                   arrived, ckpt_reads, error>>

\* distill, line 94-96: main_util.evaluate on the validation split
Validate(w) ==
    /\ pc[w] = "validate"
    /\ \E v \in MapValues : val_map' = [val_map EXCEPT ![w] = v]
    /\ pc' = [pc EXCEPT ![w] = "ckpt"]
    /\ UNCHANGED <<program, split, evaluated, batch_log, warmup, args, config, world_size, ckpt_file, teacher_file, epoch, batch,
                   teacher_model, student_model, optimizer, lr_scheduler,
                   best_val_map, arrived, ckpt_reads, error>>

\* (a comparison that also accepts an equal mAP)
ShouldSave_notStrict(w) == val_map[w] >= best_val_map[w] /\ is_main_process(w)

\* (a test that forgets the main-process condition)
ShouldSave_anyWorker(w) == val_map[w] > best_val_map[w]

\* distill, line 97: val_map > best_val_map and misc_util.is_main_process()
ShouldSave(w) == val_map[w] > best_val_map[w] /\ is_main_process(w)

\* (a loop that gives up when the metric does not improve)
AfterNoImprovement_giveUp == "crashed"

\* distill, line 97 and 101: the if has no else branch, the epoch goes on
\* with lr_scheduler.step()
AfterNoImprovement == "sched"

\* distill, line 97-99
CkptStep(w) ==
    /\ pc[w] = "ckpt"
    /\ IF ShouldSave(w)
       THEN /\ best_val_map' = [best_val_map EXCEPT ![w] = val_map[w]]
            /\ pc' = [pc EXCEPT ![w] = "saving"]
       ELSE /\ pc' = [pc EXCEPT ![w] = AfterNoImprovement]
            /\ UNCHANGED best_val_map
    /\ UNCHANGED <<program, split, evaluated, batch_log, warmup, args, config, world_size, ckpt_file, teacher_file, epoch, batch,
                   teacher_model, student_model, optimizer, lr_scheduler, val_map,
                   arrived, ckpt_reads, error>>

\* distill, line 100: save_ckpt(student_model_without_ddp, optimizer,
\* lr_scheduler, best_val_map, config, args, ckpt_file_path)
SaveCkpt(w) ==
    /\ pc[w] = "saving"
    /\ ckpt_file' = save_on_master(w, save_ckpt(without_ddp(student_model[w]),
                                                optimizer[w], lr_scheduler[w],
                                                best_val_map[w]),
                                   ckpt_file)
    /\ pc' = [pc EXCEPT ![w] = "sched"]
    /\ UNCHANGED <<program, split, evaluated, batch_log, warmup, args, config, world_size, teacher_file, epoch, batch,
                   teacher_model, student_model, optimizer, lr_scheduler,
                   best_val_map, val_map, arrived, ckpt_reads, error>>

\* distill, line 101: lr_scheduler.step(), and the loop's next epoch
SchedStep(w) ==
    /\ pc[w] = "sched"
    /\ lr_scheduler' = [lr_scheduler EXCEPT ![w].last_epoch = @ + 1]
    /\ epoch' = [epoch EXCEPT ![w] = @ + 1]
    /\ pc' = [pc EXCEPT ![w] = "epoch"]
    /\ UNCHANGED <<program, split, evaluated, batch_log, warmup, args, config, world_size, ckpt_file, teacher_file, batch,
                   teacher_model, student_model, optimizer, best_val_map, val_map,
                   arrived, ckpt_reads, error>>

\* distill, line 82 and 103: the loop is over, the worker enters dist.barrier()
BarrierEnter(w) ==
    /\ pc[w] = "epoch"
    /\ epoch[w] >= config.num_epochs
    /\ arrived' = arrived \cup {w}
    /\ pc' = [pc EXCEPT ![w] = "barrier_wait"]
    /\ UNCHANGED <<program, split, evaluated, batch_log, warmup, args, config, world_size, ckpt_file, teacher_file, epoch, batch,
                   teacher_model, student_model, optimizer, lr_scheduler,
                   best_val_map, val_map, ckpt_reads, error>>

\* (a barrier that does not wait)
BarrierOpen_noWait == TRUE

\* dist.barrier() returns once every worker of the group has entered it
BarrierOpen == arrived = Active

\* distill, line 103-106: the barrier returns and distill returns to main
BarrierLeave(w) ==
    /\ pc[w] = "barrier_wait"
    /\ BarrierOpen
    /\ pc' = [pc EXCEPT ![w] = "post_load"]
    /\ UNCHANGED <<program, split, evaluated, batch_log, warmup, args, config, world_size, ckpt_file, teacher_file, epoch, batch,
                   teacher_model, student_model, optimizer, lr_scheduler,
                   best_val_map, val_map, arrived, ckpt_reads, error>>

\* ------------------------------------------------ main after distill, evaluate
\* main, line 148-149: load_ckpt(config['student_model']['ckpt'], model=...)
PostLoad(w) ==
    /\ pc[w] = "post_load"
    /\ LET l == load_ckpt(ckpt_file, without_ddp(student_model[w]), TRUE,
                          NewOptimizer, FALSE, NewScheduler, FALSE)
       IN  /\ ckpt_reads' = [ckpt_reads EXCEPT
                               ![w] = IF l.read THEN @ \cup {"student"} ELSE @]
           /\ IF l.raised
              THEN /\ Raise(w, "RuntimeError")
                   /\ UNCHANGED student_model
              ELSE /\ student_model' = [student_model EXCEPT
                          ![w] = [l.model EXCEPT !.wrapped = student_model[w].wrapped]]
                   /\ pc' = [pc EXCEPT ![w] = "evaluate"]
                   /\ UNCHANGED error
    /\ UNCHANGED <<program, split, evaluated, batch_log, warmup, args, config, world_size, ckpt_file, teacher_file, epoch, batch,
                   teacher_model, optimizer, lr_scheduler, best_val_map, val_map,
                   arrived>>

\* evaluate, line 110-116: both backbone-only switches off, the student's
\* bottleneck switch as given on the command line
EvalBegin(w) ==
    /\ pc[w] = "evaluate"
    /\ teacher_model' = [teacher_model EXCEPT ![w].distill_backbone_only = FALSE]
    /\ student_model' = [student_model EXCEPT
            ![w].distill_backbone_only = FALSE,
            ![w].use_bottleneck_transformer = args.transform_bottleneck]
    /\ pc' = [pc EXCEPT ![w] = IF args.skip_teacher_eval THEN "eval_student"
                                ELSE "eval_teacher"]
    /\ UNCHANGED <<program, split, evaluated, batch_log, warmup, args, config, world_size, ckpt_file, teacher_file, epoch, batch,
                   optimizer, lr_scheduler, best_val_map, val_map, arrived,
                   ckpt_reads, error>>

\* main_util.evaluate(model, test_data_loader, device): the model evaluated
\* and the parameters it has
TestEvaluation(name, m) == [model |-> name, params |-> m.params, frozen |-> m.frozen]

\* evaluate, line 117-118
EvalTeacher(w) ==
    /\ pc[w] = "eval_teacher"
    /\ evaluated' = [evaluated EXCEPT
            ![w] = Append(@, TestEvaluation("teacher", teacher_model[w]))]
    /\ pc' = [pc EXCEPT ![w] = "eval_student"]
    /\ UNCHANGED <<program, split, batch_log, warmup, args, config, world_size, ckpt_file, teacher_file, epoch, batch,
                   teacher_model, student_model, optimizer, lr_scheduler,
                   best_val_map, val_map, arrived, ckpt_reads, error>>

\* evaluate, line 120-121
EvalStudent(w) ==
    /\ pc[w] = "eval_student"
    /\ evaluated' = [evaluated EXCEPT
            ![w] = Append(@, TestEvaluation("student", student_model[w]))]
    /\ pc' = [pc EXCEPT ![w] = "done"]
    /\ UNCHANGED <<program, split, batch_log, warmup, args, config, world_size, ckpt_file, teacher_file, epoch, batch,
                   teacher_model, student_model, optimizer, lr_scheduler,
                   best_val_map, val_map, arrived, ckpt_reads, error>>


RunnerStep(w) ==
        \/ GetTeacherModel(w)
        \/ GetStudentModel(w)
        \/ Dispatch(w)
        \/ DistillInit(w)
        \/ EpochBegin(w)
        \/ TrainBatch(w)
        \/ EndTraining(w)
        \/ Validate(w)
        \/ CkptStep(w)
        \/ SaveCkpt(w)
        \/ SchedStep(w)
        \/ BarrierEnter(w)
        \/ BarrierLeave(w)
        \/ PostLoad(w)
        \/ EvalBegin(w)
        \/ EvalTeacher(w)
        \/ EvalStudent(w)

\* ------------------------------------------------- split_rcnn.py: the splitter
\* An R-CNN model as the splitter sees it: the input transform, the children
\* of backbone.body in order, layer1 with its encoder / decoder halves (either
\* may be missing in a model that was not built for splitting), the feature
\* pyramid, the region-proposal network and the detection heads.
BodyChildren == <<"conv1", "bn1", "relu", "maxpool", "layer1", "layer2", "layer3", "layer4">>

RcnnModel(has_encoder, has_decoder, ext_classifier) ==
    [transform |-> "transform",
     body |-> BodyChildren,
     layer1 |-> [encoder |-> has_encoder, decoder |-> has_decoder,
                 ext_classifier |-> ext_classifier],
     getter |-> IF ext_classifier THEN "ExtIntermediateLayerGetter"
                ELSE "IntermediateLayerGetter",
     fpn |-> "fpn",
     rpn |-> [class |-> "RegionProposalNetwork", head |-> "rpn.head",
              anchor_generator |-> "AnchorGenerator"],
     roi_heads |-> "roi_heads"]

Without(seq, names) == SelectSeq(seq, LAMBDA x : x \notin names)
Range(seq) == {seq[i] : i \in 1 .. Len(seq)}

NoHead == [none |-> TRUE]
NoTail == [none |-> TRUE]

\* layer0 of the head: nn.Sequential(conv1, bn1, relu, maxpool)
HeadLayer0 == <<"conv1", "bn1", "relu", "maxpool">>

\* RcnnHead.__init__: the attribute lookup of layer1.encoder fails before the
\* four children are deleted from the model's backbone
RcnnHead(m, bottleneck_transformer) ==
    IF ~m.layer1.encoder
    THEN [raised |-> "AttributeError", head |-> NoHead, model |-> m]
    ELSE [raised |-> "none",
          head |-> [none |-> FALSE, transform |-> m.transform, layer0 |-> HeadLayer0,
                    layer1_encoder |-> [name |-> "layer1.encoder",
                                        ext_classifier |-> m.layer1.ext_classifier],
                    bottleneck_transformer |-> bottleneck_transformer],
          model |-> [m EXCEPT !.body = Without(@, Range(HeadLayer0))]]

\* (a tail that leaves layer1 in the backbone)
TailDeletes_nothing == {}

\* what RcnnTail.__init__ deletes from the model's backbone: layer1
TailDeletes == {"layer1"}

\* RcnnTail.__init__: layer1.decoder is looked up, layer1 is deleted from the
\* backbone, and what is left of the backbone becomes sub_backbone
RcnnTail(m, bottleneck_transformer) ==
    IF ~m.layer1.decoder
    THEN [raised |-> "AttributeError", tail |-> NoTail, model |-> m]
    ELSE LET body == Without(m.body, TailDeletes)
         IN  [raised |-> "none",
              tail |-> [none |-> FALSE, bottleneck_transformer |-> bottleneck_transformer,
                        layer1_decoder |-> "layer1.decoder",
                        sub_backbone |-> [body |-> body, fpn |-> m.fpn,
                                          getter |-> m.getter],
                        rpn |-> [class |-> "ModifiedRegionProposalNetwork",
                                 head |-> m.rpn.head,
                                 anchor_generator |-> "ModifiedAnchorGenerator"],
                        roi_heads |-> m.roi_heads,
                        transform |-> m.transform],
              model |-> [m EXCEPT !.body = body]]

\* split_rcnn_model(model, quantization): the pair, or the exception that
\* left it; model is the caller's object after the call
split_rcnn_model(m, quantization) ==
    LET encoder_transformer == IF quantization = "None" THEN "None" ELSE "Quantizer"
        decoder_transformer == IF quantization = "None" THEN "None" ELSE "Dequantizer"
        h == RcnnHead(m, encoder_transformer)
        t == RcnnTail(h.model, decoder_transformer)
    IN  IF h.raised # "none"
        THEN [raised |-> h.raised, head |-> NoHead, tail |-> NoTail, model |-> h.model]
        ELSE IF t.raised # "none"
        THEN [raised |-> t.raised, head |-> NoHead, tail |-> NoTail, model |-> t.model]
        ELSE [raised |-> "none", head |-> h.head, tail |-> t.tail, model |-> t.model]

\* A forward pass is recorded as the sequence of the stages applied to the
\* image, in order: two passes that apply the same stages in the same order to
\* the same image compute the same value.
NoOutput == [none |-> TRUE]

\* RcnnHead.forward(images): None when the encoder's classifier finds no object
RcnnHead_forward(h, image, ext_stop) ==
    LET z == <<image, h.transform>> \o h.layer0 \o <<h.layer1_encoder.name>>
    IN  IF h.layer1_encoder.ext_classifier /\ ext_stop = "encoder"
        THEN NoOutput
        ELSE [none |-> FALSE,
              z |-> IF h.bottleneck_transformer # "None"
                    THEN Append(z, h.bottleneck_transformer) ELSE z,
              tensors_shape |-> <<"tensors.shape", image>>,
              image_sizes |-> <<"image_sizes", image>>,
              original_image_sizes |-> <<"original_image_sizes", image>>]

\* RcnnTail.forward(z, tensors_shape, image_sizes, original_image_sizes)
RcnnTail_forward(t, o, training, ext_stop) ==
    LET z == IF t.bottleneck_transformer # "None"
             THEN Append(o.z, t.bottleneck_transformer) ELSE o.z
        features == (Append(z, t.layer1_decoder) \o t.sub_backbone.body)
                    \o <<t.sub_backbone.fpn>>
    IN  IF /\ t.sub_backbone.getter = "ExtIntermediateLayerGetter"
           /\ ~training /\ ext_stop = "backbone"
        THEN [none |-> FALSE, kind |-> "empty", trace |-> features,
              image_sizes |-> o.image_sizes,
              original_image_sizes |-> o.original_image_sizes]
        ELSE [none |-> FALSE, kind |-> IF training THEN "losses" ELSE "detections",
              trace |-> features \o <<"rpn", t.roi_heads, "postprocess">>,
              image_sizes |-> o.image_sizes,
              original_image_sizes |-> o.original_image_sizes]

\* the forward pass of the model before it is split: transform, the backbone
\* with layer1 as encoder then decoder, the feature pyramid, the
\* region-proposal network, the detection heads, postprocess (the classifier
\* of an extended backbone lets the pass go on: ext_stop = "never")
ExpandLayer1(body) ==
    LET i == CHOOSE k \in 1 .. Len(body) : body[k] = "layer1"
    IN  (SubSeq(body, 1, i - 1) \o <<"layer1.encoder", "layer1.decoder">>)
        \o SubSeq(body, i + 1, Len(body))

Unsplit_forward(m, image, training) ==
    [none |-> FALSE, kind |-> IF training THEN "losses" ELSE "detections",
     trace |-> ((<<image, m.transform>> \o ExpandLayer1(m.body)) \o <<m.fpn>>)
               \o <<"rpn", m.roi_heads, "postprocess">>,
     image_sizes |-> <<"image_sizes", image>>,
     original_image_sizes |-> <<"original_image_sizes", image>>]

Images == {"image_a", "image_b"}

IdleSplit ==
    [pc |-> "idle", model |-> RcnnModel(TRUE, TRUE, FALSE), quantization |-> "None",
     image |-> "image_a", training |-> FALSE, ext_stop |-> "never",
     raised |-> "none", head |-> NoHead, tail |-> NoTail,
     reference |-> NoOutput, head_out |-> NoOutput, tail_out |-> NoOutput]

SplitInit ==
    split \in {[IdleSplit EXCEPT !.pc = "reference", !.model = RcnnModel(e, d, x),
                                 !.quantization = q, !.image = i, !.training = t,
                                 !.ext_stop = n] :
               e \in BOOLEAN, d \in BOOLEAN, x \in BOOLEAN, q \in {"None", "8"},
               i \in Images, t \in BOOLEAN,
               n \in {"never", "encoder", "backbone"}}

\* the caller runs the model once before it splits it
ReferenceForward ==
    /\ split.pc = "reference"
    /\ split' = [split EXCEPT
            !.reference = IF split.model.layer1.encoder /\ split.model.layer1.decoder
                          THEN Unsplit_forward(split.model, split.image, split.training)
                          ELSE NoOutput,
            !.pc = "split"]
    /\ UNCHANGED <<program, runnerVars>>

\* head_model, tail_model = split_rcnn_model(model, quantization)
SplitCall ==
    /\ split.pc = "split"
    /\ LET r == split_rcnn_model(split.model, split.quantization)
       IN  split' = [split EXCEPT !.raised = r.raised, !.head = r.head, !.tail = r.tail,
                                  !.model = r.model,
                                  !.pc = IF r.raised # "none" THEN "failed" ELSE "head"]
    /\ UNCHANGED <<program, runnerVars>>

\* head_model(images)
HeadForward ==
    /\ split.pc = "head"
    /\ LET o == RcnnHead_forward(split.head, split.image, split.ext_stop)
       IN  split' = [split EXCEPT !.head_out = o,
                                  !.pc = IF o.none THEN "stopped" ELSE "tail"]
    /\ UNCHANGED <<program, runnerVars>>

\* tail_model(*head_output)
TailForward ==
    /\ split.pc = "tail"
    /\ split' = [split EXCEPT
            !.tail_out = RcnnTail_forward(split.tail, split.head_out, split.training,
                                          split.ext_stop),
            !.pc = "done"]
    /\ UNCHANGED <<program, runnerVars>>

SplitNext ==
    \/ ReferenceForward
    \/ SplitCall
    \/ HeadForward
    \/ TailForward

\* ------------------------------------------------------------ the system
IdleRunner ==
    /\ args = [distill |-> FALSE, skip_teacher_eval |-> FALSE,
               transform_bottleneck |-> FALSE]
    /\ config = [teacher_type |-> "faster_rcnn", student_type |-> "faster_rcnn",
                 distill_backbone_only |-> FALSE, num_epochs |-> 0]
    /\ world_size = 1
    /\ ckpt_file = NoFile
    /\ teacher_file = NoFile
    /\ pc = PerWorker("absent")
    /\ epoch = PerWorker(0)
    /\ batch = PerWorker(0)
    /\ teacher_model = PerWorker(NoModel)
    /\ student_model = PerWorker(NoModel)
    /\ optimizer = PerWorker(NewOptimizer)
    /\ lr_scheduler = PerWorker(NewScheduler)
    /\ best_val_map = PerWorker(0)
    /\ val_map = PerWorker(0)
    /\ arrived = {}
    /\ ckpt_reads = PerWorker({})
    /\ error = PerWorker("none")
    /\ warmup = PerWorker(NoWarmup)
    /\ batch_log = PerWorker(<<>>)
    /\ evaluated = PerWorker(<<>>)

Init ==
    \/ program = "mimic_runner" /\ RunnerInit /\ split = IdleSplit
    \/ program = "split" /\ SplitInit /\ IdleRunner

Next ==
    \/ \E w \in Ranks : RunnerStep(w)
    \/ SplitNext

Spec == Init /\ [][Next]_vars

\* ================================================================ claims
LoopPcs == {"epoch", "train", "validate", "ckpt", "saving", "sched"}
AfterDistillPcs == {"post_load", "evaluate", "eval_teacher", "eval_student", "done"}

\* ---------------------------------------------------------------- C1
\* C1: in distill the checkpoint is written at the end of an epoch only if
\* that epoch's validation mAP is strictly greater than the best value so far
\* (the value loaded from an existing checkpoint, or 0.0 when there is none);
\* an equal or lower mAP leaves the checkpoint and the best value unchanged;
\* after a write the best value, and the value stored in the file, is the new
\* mAP, which is strictly greater than the value the file held before.
C1_Worker(w) ==
    /\ (pc[w] = "distill" /\ pc'[w] # "distill")
          => best_val_map'[w] = IF ckpt_file.exists THEN ckpt_file.best_value ELSE 0
    /\ (pc[w] = "ckpt" /\ pc'[w] # "ckpt" /\ val_map[w] <= best_val_map[w])
          => /\ ckpt_file' = ckpt_file
             /\ best_val_map'[w] = best_val_map[w]
             /\ pc'[w] = "sched"
    /\ (pc[w] = "ckpt" /\ pc'[w] = "saving")
          => /\ val_map[w] > best_val_map[w]
             /\ best_val_map'[w] = val_map[w]
    /\ pc[w] \notin {"distill", "ckpt"} => best_val_map'[w] = best_val_map[w]

C1_File ==
    ckpt_file' # ckpt_file
       => /\ ckpt_file'.best_value > ckpt_file.best_value
          /\ \E w \in Active : /\ pc[w] = "saving" /\ pc'[w] = "sched"
                               /\ ckpt_file'.best_value = val_map[w]
                               /\ best_val_map'[w] = val_map[w]

C1_StrictImprovementOnly == [][(\A w \in Active : C1_Worker(w)) /\ C1_File]_vars

\* the file holds the best mAP written in an earlier epoch, and a later epoch
\* with a lower mAP has passed its checkpoint step
C1_Witness ==
    /\ program = "mimic_runner"
    /\ pc[0] = "sched" /\ epoch[0] = 1
    /\ val_map[0] = 1
    /\ ckpt_file.exists /\ ckpt_file.best_value = MaxMap /\ best_val_map[0] = MaxMap

\* ---------------------------------------------------------------- C2
\* C2: with several workers in distill only the main worker ever writes the
\* checkpoint file; on every other worker the end-of-epoch checkpoint step
\* is a no-op whatever mAP it observed (its best value and the file stay as
\* they were and it goes on to the scheduler step), so no two workers are
\* ever writing the file.
C2_Step ==
    /\ ckpt_file' # ckpt_file
          => \E w \in Active : is_main_process(w) /\ pc[w] = "saving" /\ pc'[w] = "sched"
    /\ \A w \in Active :
          ~is_main_process(w)
             => /\ pc'[w] # "saving"
                /\ (pc[w] = "ckpt" /\ pc'[w] # "ckpt")
                      => /\ pc'[w] = "sched"
                         /\ best_val_map'[w] = best_val_map[w]
                         /\ ckpt_file' = ckpt_file
    /\ Cardinality({w \in Active : pc'[w] = "saving"}) <= 1

C2_OnlyMainWrites == [][C2_Step]_vars

\* a second worker has seen an mAP above its best value and passed its
\* checkpoint step, and the file holds what the main worker wrote
C2_Witness ==
    /\ program = "mimic_runner" /\ world_size = 2
    /\ pc[1] = "sched" /\ val_map[1] > best_val_map[1]
    /\ ckpt_file.exists /\ ckpt_file.best_value = MaxMap

\* ---------------------------------------------------------------- C3
\* C3 as stated: when a training run has ended (distill has returned), a best
\* checkpoint exists at the student's ckpt path.
C3_CheckpointExistsAtEnd ==
    \A w \in Active :
        (program = "mimic_runner" /\ args.distill /\ pc[w] \in AfterDistillPcs)
           => ckpt_file.exists

\* C3, amended: the run writes no other checkpoint than the file at the
\* student's ckpt path; the file is never removed; it is created or
\* overwritten only by a write of the main worker whose mAP is strictly
\* greater than the value stored before (0.0 without a file); and a run that
\* ends without a file is one without a file at its start in which no epoch
\* improved on 0.0.
C3_Step ==
    /\ ckpt_file.exists => ckpt_file'.exists
    /\ ckpt_file' # ckpt_file
          => /\ ckpt_file'.exists
             /\ ckpt_file'.best_value > ckpt_file.best_value
             /\ \E w \in Active : pc[w] = "saving" /\ val_map[w] = ckpt_file'.best_value

C3_NoFileAtEnd ==
    \A w \in Active :
        (args.distill /\ is_main_process(w) /\ pc[w] \in AfterDistillPcs
         /\ ~ckpt_file.exists)
           => best_val_map[w] = 0

C3_AtMostOneBestCheckpoint == [][C3_Step]_vars /\ []C3_NoFileAtEnd

\* a run of MaxEpochs epochs has ended and there is no checkpoint
C3_Witness ==
    /\ program = "mimic_runner" /\ args.distill
    /\ config.num_epochs = MaxEpochs /\ epoch[0] = MaxEpochs
    /\ pc[0] = "done"
    /\ ~ckpt_file.exists

\* ---------------------------------------------------------------- C4
\* C4: save_ckpt followed by load_ckpt on the same path gives back the saved
\* model parameters, optimizer state and scheduler state, and the best value
\* distill passed to save_ckpt; on a start with a checkpoint the student's
\* parameters, the optimizer, the scheduler and best_val_map are those of the
\* file.
C4_SaveThenLoad(w) ==
    (pc[w] = "saving" /\ pc'[w] = "sched" /\ is_main_process(w))
       => LET l == load_ckpt(ckpt_file', NewModel(student_model[w].kind), TRUE,
                             NewOptimizer, TRUE, NewScheduler, TRUE)
          IN  /\ ~l.raised /\ l.found
              /\ l.model.params = student_model[w].params
              /\ l.optimizer = optimizer[w]
              /\ l.lr_scheduler = lr_scheduler[w]
              /\ l.best_value = best_val_map[w]

C4_Start(w) ==
    /\ (pc[w] = "get_student" /\ pc'[w] = "dispatch" /\ ckpt_file.exists)
          => student_model'[w].params = ckpt_file.model.params
    /\ (pc[w] = "distill" /\ pc'[w] = "epoch" /\ ckpt_file.exists)
          => /\ best_val_map'[w] = ckpt_file.best_value
             /\ optimizer'[w] = ckpt_file.optimizer
             /\ lr_scheduler'[w] = ckpt_file.lr_scheduler
    /\ (pc[w] = "post_load" /\ pc'[w] # "post_load" /\ ckpt_file.exists)
          => /\ pc'[w] = "evaluate"
             /\ student_model'[w].params = ckpt_file.model.params

C5_Worker(w) ==
    /\ (pc[w] = "get_student" /\ pc'[w] # "get_student" /\ ~ckpt_file.exists
        /\ config.student_type # "unknown")
          => /\ pc'[w] = "dispatch" /\ error'[w] = "none"
             /\ student_model'[w] = freeze_modules(NewModel(config.student_type))
    /\ (pc[w] = "get_teacher" /\ pc'[w] # "get_teacher" /\ ~teacher_file.exists
        /\ config.teacher_type # "unknown")
          => /\ pc'[w] = "get_student" /\ error'[w] = "none"
             /\ teacher_model'[w] =
                   freeze_module_params(NewModel(config.teacher_type), {"params", "frozen"})
    /\ (pc[w] = "distill" /\ pc'[w] # "distill" /\ ~ckpt_file.exists)
          => /\ pc'[w] = "epoch" /\ error'[w] = "none"
             /\ best_val_map'[w] = 0
             /\ optimizer'[w] = NewOptimizer
             /\ lr_scheduler'[w] = NewScheduler
             /\ student_model'[w] = student_model[w]
    /\ (pc[w] = "post_load" /\ pc'[w] # "post_load" /\ ~ckpt_file.exists)
          => /\ pc'[w] = "evaluate" /\ error'[w] = "none"
             /\ student_model'[w] = student_model[w]
             /\ optimizer'[w] = optimizer[w]
             /\ lr_scheduler'[w] = lr_scheduler[w]
    /\ (pc[w] # pc'[w] /\ ~ckpt_file.exists /\ ~ckpt_file'.exists)
          => ("student" \in ckpt_reads'[w]) = ("student" \in ckpt_reads[w])

C5_MissingCheckpointTolerated == [][\A w \in Active : C5_Worker(w)]_vars

\* a student trained from scratch, with no checkpoint ever written, has gone
\* through the load after distill
C5_Witness ==
    /\ program = "mimic_runner" /\ args.distill /\ config.num_epochs >= 1
    /\ pc[0] = "evaluate"
    /\ ~ckpt_file.exists
    /\ best_val_map[0] = 0
    /\ student_model[0].params = config.num_epochs * NumBatches

\* ---------------------------------------------------------------- C6
\* C6: in a distributed run a worker leaves the end-of-training barrier only
\* when every worker has entered it, and each worker's read of the student
\* checkpoint after distill comes after the barrier: while any worker is at
\* or past that read no worker is still in its epochs, no write of the file
\* is in progress and none follows.
C6_AfterBarrier ==
    \A w \in Active :
        (args.distill /\ pc[w] \in AfterDistillPcs)
           => \A v \in Active : pc[v] \in {"barrier_wait"} \cup AfterDistillPcs

C6_Step ==
    /\ \A w \in Active :
          (pc[w] = "post_load" /\ pc'[w] # "post_load")
             => \A v \in Active : pc[v] # "saving"
    /\ ckpt_file' # ckpt_file
          => \A v \in Active : pc[v] \notin AfterDistillPcs

FairSpec == Spec /\ \A w \in Ranks : WF_vars(RunnerStep(w))

\* C7: a validation metric that does not improve never aborts training:
\* whatever the mAP values, every epoch goes training, validation, checkpoint
\* step (with or without a write), one step of the epoch-level scheduler, in
\* that order; the loop is left after exactly num_epochs epochs, into the
\* barrier; and every run that starts distill gets all its workers through
\* the barrier and back to main.
C7_Worker(w) ==
    /\ (pc[w] = "epoch" /\ pc'[w] # "epoch")
          => \/ epoch[w] < config.num_epochs /\ pc'[w] = "train"
             \/ epoch[w] = config.num_epochs /\ pc'[w] = "barrier_wait"
    /\ (pc[w] = "train" /\ pc'[w] # "train")
          => batch[w] = NumBatches /\ pc'[w] = "validate"
    /\ (pc[w] = "validate" /\ pc'[w] # "validate") => pc'[w] = "ckpt"
    /\ (pc[w] = "ckpt" /\ pc'[w] # "ckpt") => pc'[w] \in {"saving", "sched"}
    /\ (pc[w] = "saving" /\ pc'[w] # "saving") => pc'[w] = "sched"
    /\ (pc[w] = "sched" /\ pc'[w] # "sched")
          => /\ pc'[w] = "epoch"
             /\ epoch'[w] = epoch[w] + 1
             /\ lr_scheduler'[w].last_epoch = lr_scheduler[w].last_epoch + 1
    /\ pc[w] \notin {"sched", "distill"} => lr_scheduler'[w] = lr_scheduler[w]
    /\ (pc[w] = "barrier_wait" /\ pc'[w] # "barrier_wait") => pc'[w] = "post_load"
    /\ pc[w] \in LoopPcs \cup {"barrier_wait"} => error'[w] = "none"

C7_Returns ==
    (\E w \in Active : pc[w] = "distill")
       ~> (\A w \in Active : pc[w] \in AfterDistillPcs)

C7_NoAbort == [][\A w \in Active : C7_Worker(w)]_vars /\ C7_Returns

\* distill has returned after MaxEpochs epochs none of which improved the
\* metric
C7_Witness ==
    /\ program = "mimic_runner" /\ args.distill
    /\ config.num_epochs = MaxEpochs /\ epoch[0] = MaxEpochs
    /\ pc[0] = "post_load"
    /\ best_val_map[0] = 0 /\ ~ckpt_file.exists
    /\ lr_scheduler[0].last_epoch = MaxEpochs

\* ---------------------------------------------------------------- C8
\* C8 as stated: a configuration error is raised before any checkpoint is
\* read.
C8_NoCheckpointReadBeforeError ==
    \A w \in Active : error[w] = "ValueError" => ckpt_reads[w] = {}

\* C8, amended: an unexpected model type always ends the worker with a
\* ValueError at setup, before any training batch is run, before any
\* checkpoint is written and before the checkpoint of the rejected model is
\* read (the teacher's checkpoint has been read when it is the student's type
\* that is rejected); split_rcnn_model fails, and returns no head / tail pair,
\* exactly when layer1 lacks the encoder or the decoder.
C8_Runner(w) ==
    /\ (config.teacher_type = "unknown" /\ pc[w] # "get_teacher")
          => error[w] = "ValueError"
    /\ (config.student_type = "unknown" /\ pc[w] \notin {"get_teacher", "get_student"})
          => error[w] = "ValueError"
    /\ error[w] = "ValueError"
          => /\ pc[w] = "crashed"
             /\ config.teacher_type = "unknown" \/ config.student_type = "unknown"
             /\ epoch[w] = 0 /\ batch[w] = 0
             /\ optimizer[w] = NewOptimizer
             /\ student_model[w] = NoModel
             /\ ckpt_file \in {NoFile, PrevCkpt}
             /\ "student" \notin ckpt_reads[w]
             /\ config.teacher_type = "unknown" => ckpt_reads[w] = {}

C8_Split ==
    split.pc \in {"failed", "head", "tail", "stopped", "done"}
       => /\ (split.pc = "failed")
                = ~(split.model.layer1.encoder /\ split.model.layer1.decoder)
          /\ split.pc = "failed"
                => /\ split.raised = "AttributeError"
                   /\ split.head = NoHead /\ split.tail = NoTail
          /\ split.pc # "failed"
                => split.raised = "none" /\ ~split.head.none /\ ~split.tail.none

C8_ConfigErrorsAtSetup == (\A w \in Active : C8_Runner(w)) /\ C8_Split

\* the student's type is rejected after the teacher's checkpoint was read
C8_Witness ==
    /\ program = "mimic_runner"
    /\ error[0] = "ValueError" /\ config.student_type = "unknown"
    /\ ckpt_reads[0] = {"teacher"}

\* ---------------------------------------------------------------- C9
\* C9: split_rcnn_model partitions the layers between head and tail, none
\* lost and none twice: the head has the input transform, conv1 / bn1 / relu
\* / maxpool and layer1's encoder, the tail layer1's decoder and all that
\* follows; with quantization None neither side has a bottleneck transform,
\* and the head followed by the tail applies to an image the stages of the
\* unsplit model, in the unsplit model's order, and returns its output.
C9_Partition ==
    split.pc \in {"head", "tail", "stopped", "done"}
       => LET h == split.head
              t == split.tail
              applied == ((h.layer0 \o <<h.layer1_encoder.name, t.layer1_decoder>>)
                          \o t.sub_backbone.body)
          IN  /\ h.transform = "transform"
              /\ h.layer0 = <<"conv1", "bn1", "relu", "maxpool">>
              /\ h.layer1_encoder.name = "layer1.encoder"
              /\ t.layer1_decoder = "layer1.decoder"
              /\ applied = ExpandLayer1(BodyChildren)
              /\ Cardinality(Range(applied)) = Len(applied)
              /\ t.sub_backbone.fpn = "fpn" /\ t.rpn.head = "rpn.head"
              /\ t.roi_heads = "roi_heads"
              /\ split.model.body = t.sub_backbone.body
              /\ split.quantization = "None"
                    => /\ h.bottleneck_transformer = "None"
                       /\ t.bottleneck_transformer = "None"

C9_Composition ==
    (split.pc = "done" /\ split.quantization = "None" /\ split.ext_stop = "never")
       => /\ split.tail_out = split.reference
          /\ Cardinality(Range(split.tail_out.trace)) = Len(split.tail_out.trace)

C10_BothFlagsOffInValidation ==
    \A w \in Active :
        pc[w] = "validate"
           => /\ ~teacher_model[w].distill_backbone_only
              /\ ~student_model[w].distill_backbone_only

\* C10, amended: in every epoch the flag has the configured value on both
\* models during the training phase; before the validation phase it is reset
\* to false on the student only, the teacher (which validation does not run)
\* keeps the configured value; evaluate resets it on both models before any
\* test evaluation; so no model is ever evaluated while its own flag is true.
C10_FlagsPerPhase ==
    \A w \in Active :
        /\ pc[w] = "train"
              => /\ teacher_model[w].distill_backbone_only = config.distill_backbone_only
                 /\ student_model[w].distill_backbone_only = config.distill_backbone_only
        /\ pc[w] = "validate"
              => /\ ~student_model[w].distill_backbone_only
                 /\ teacher_model[w].distill_backbone_only = config.distill_backbone_only
        /\ pc[w] \in {"eval_teacher", "eval_student"}
              => /\ ~teacher_model[w].distill_backbone_only
                 /\ ~student_model[w].distill_backbone_only

\* a validation runs on the student, flag off, while the teacher's flag is on
C10_Witness ==
    /\ program = "mimic_runner" /\ config.distill_backbone_only
    /\ pc[0] = "validate" /\ epoch[0] = 1
    /\ teacher_model[0].distill_backbone_only
    /\ ~student_model[0].distill_backbone_only

\* ---------------------------------------------------------------- C11
\* C11: the learning-rate schedule of a run is warm-up in epoch 0 only: while
\* the batches of epoch 0 are processed a warm-up scheduler exists, of length
\* min(1000, number of batches - 1), and has been stepped once per batch
\* done; in every epoch >= 1, and outside the training phase, there is no
\* warm-up scheduler; the epoch-level scheduler is stepped exactly once at
\* the end of every epoch, epoch 0 included, and nowhere else in the loop.
C11_Warmup(w) ==
    /\ (pc[w] = "train" /\ epoch[w] = 0)
          => /\ warmup[w].exists
             /\ warmup[w].warmup_iters =
                   (IF NumBatches - 1 <= WarmupCap THEN NumBatches - 1 ELSE WarmupCap)
             /\ warmup[w].steps = batch[w]
    /\ (pc[w] # "train" \/ epoch[w] >= 1) => warmup[w] = NoWarmup
    /\ pc[w] \in LoopPcs
          => lr_scheduler[w].last_epoch - epoch[w]
                \in {NewScheduler.last_epoch, PrevCkpt.lr_scheduler.last_epoch}

C11_Step(w) ==
    /\ (pc[w] = "train" /\ batch'[w] = batch[w] + 1)
          => warmup'[w].steps = IF epoch[w] = 0 THEN warmup[w].steps + 1 ELSE 0
    /\ pc[w] \in LoopPcs
          => /\ epoch'[w] = epoch[w] + 1
                   => lr_scheduler'[w].last_epoch = lr_scheduler[w].last_epoch + 1
             /\ epoch'[w] = epoch[w] => lr_scheduler'[w] = lr_scheduler[w]
             /\ epoch'[w] \in {epoch[w], epoch[w] + 1}

C11_WarmupThenSteady ==
    [](\A w \in Active : C11_Warmup(w)) /\ [][\A w \in Active : C11_Step(w)]_vars

\* the last batch of epoch 1 is done without a warm-up scheduler, after an
\* epoch 0 whose warm-up was stepped and one step of the epoch-level scheduler
C11_Witness ==
    /\ program = "mimic_runner"
    /\ pc[0] = "train" /\ epoch[0] = 1 /\ batch[0] = NumBatches
    /\ ~warmup[0].exists
    /\ lr_scheduler[0].last_epoch = 1
    /\ optimizer[0].steps = 2 * NumBatches

\* ---------------------------------------------------------------- C12
DistillPcs == {"distill", "barrier_wait"} \cup LoopPcs

\* C12: for every batch of every epoch the calls are, in this order, the
\* forward of teacher and student that gives the distillation loss, the
\* gradient reset, backward, the optimizer step, and in epoch 0 the warm-up
\* scheduler step, so that a batch moves the student's non-frozen parameters
\* by the gradient of its own loss only; no other step of distill changes
\* any parameter: the teacher's parameters and the parameters of the
\* student's frozen modules are at every point of distill, hence at its end,
\* what they were at its start.
C12_Step(w) ==
    pc[w] \in DistillPcs
       => /\ teacher_model'[w].params = teacher_model[w].params
          /\ teacher_model'[w].frozen = teacher_model[w].frozen
          /\ student_model'[w].frozen = student_model[w].frozen
          /\ IF pc[w] = "train" /\ batch'[w] = batch[w] + 1
             THEN /\ batch_log'[w] =
                        IF epoch[w] = 0
                        THEN <<"distillation_box", "zero_grad", "backward",
                               "optimizer.step", "lr_scheduler.step">>
                        ELSE <<"distillation_box", "zero_grad", "backward",
                               "optimizer.step">>
                  /\ student_model'[w].params = student_model[w].params + 1
                  /\ student_model'[w].grad = [params |-> 1, frozen |-> 0]
                  /\ optimizer'[w].steps = optimizer[w].steps + 1
             ELSE /\ student_model'[w].params = student_model[w].params
                  /\ optimizer'[w] = optimizer[w]
                     \/ pc[w] = "distill"

C12_Frozen(w) ==
    /\ teacher_model[w].kind # "none"
          => /\ teacher_model[w].params = teacher_file.model.params
             /\ teacher_model[w].frozen = teacher_file.model.frozen
             /\ teacher_model[w].requires_grad = [params |-> FALSE, frozen |-> FALSE]
             /\ teacher_model[w].grad = NoGrad
    /\ pc[w] \in DistillPcs
          => /\ student_model[w].frozen = ckpt_file.model.frozen
             /\ student_model[w].requires_grad = [params |-> TRUE, frozen |-> FALSE]

C12_OnlyStudentTrained ==
    [](\A w \in Active : C12_Frozen(w)) /\ [][\A w \in Active : C12_Step(w)]_vars

\* distill is over after MaxEpochs epochs of NumBatches batches each: the
\* student's non-frozen parameters have moved once per batch, its frozen
\* ones and the teacher's are those of their checkpoints
C12_Witness ==
    /\ program = "mimic_runner" /\ teacher_file.exists
    /\ pc[0] = "barrier_wait" /\ epoch[0] = MaxEpochs
    /\ student_model[0].params = PrevCkpt.model.params + MaxEpochs * NumBatches
    /\ student_model[0].frozen = PrevCkpt.model.frozen
    /\ teacher_model[0].params = TeacherCkpt.model.params
    /\ batch_log[0] = <<"distillation_box", "zero_grad", "backward", "optimizer.step">>

\* ---------------------------------------------------------------- C13
\* C13: the bottleneck transform is bypassed while distill trains and
\* restored for evaluation: whenever a batch is processed the student's
\* layer1 use_bottleneck_transformer is False, whatever -transform_bottleneck
\* says; whenever a validation of distill or a test evaluation of evaluate
\* runs it is the -transform_bottleneck argument; in every epoch.
C13_Worker(w) ==
    /\ pc[w] = "train" => ~student_model[w].use_bottleneck_transformer
    /\ pc[w] \in {"validate", "eval_teacher", "eval_student"}
          => student_model[w].use_bottleneck_transformer = args.transform_bottleneck

C13_BypassedInTraining == \A w \in Active : C13_Worker(w)

\* with -transform_bottleneck given, a batch of the second epoch has been
\* processed with the switch off, after a validation that had it on
C13_Witness ==
    /\ program = "mimic_runner" /\ args.transform_bottleneck
    /\ pc[0] = "train" /\ epoch[0] = 1 /\ batch[0] >= 1
    /\ ~student_model[0].use_bottleneck_transformer

\* ---------------------------------------------------------------- C14
\* C14: with -distill the student that the final test evaluation runs has
\* the parameters stored in the file at the student's ckpt path, loaded after
\* distill returned: those saved with the best mAP, in this run or an
\* earlier one, not those of the last epoch trained; without a file at that
\* point the load is skipped without an error, the student keeps the
\* parameters of its last epoch and the evaluation still runs.  In both cases
\* the teacher is evaluated, before the student, if and only if
\* -skip_teacher_eval is not given.
C14_Loaded(w) ==
    (args.distill /\ pc[w] \in {"evaluate", "eval_teacher", "eval_student", "done"})
       => /\ error[w] = "none"
          /\ IF ckpt_file.exists
             THEN /\ student_model[w].params = ckpt_file.model.params
                  /\ student_model[w].frozen = ckpt_file.model.frozen
                  /\ ckpt_file.best_value = best_val_map[0]
                  /\ ckpt_file.optimizer.steps <= optimizer[0].steps
             ELSE /\ student_model[w].params = config.num_epochs * NumBatches
                  /\ optimizer[w].steps = config.num_epochs * NumBatches

C14_Order(w) ==
    /\ Len(evaluated[w]) > 0 => pc[w] \in {"eval_student", "done"}
    /\ pc[w] = "eval_student"
          => evaluated[w] = IF args.skip_teacher_eval THEN <<>>
                            ELSE <<TestEvaluation("teacher", teacher_model[w])>>
    /\ pc[w] = "done"
          => evaluated[w] =
                (IF args.skip_teacher_eval THEN <<>>
                 ELSE <<TestEvaluation("teacher", teacher_model[w])>>)
                \o <<TestEvaluation("student", student_model[w])>>

C14_Step(w) ==
    (args.distill /\ pc[w] = "post_load" /\ pc'[w] # "post_load")
       => /\ pc'[w] = "evaluate"
          /\ IF ckpt_file.exists
             THEN "student" \in ckpt_reads'[w]
             ELSE student_model'[w] = student_model[w] /\ ckpt_reads'[w] = ckpt_reads[w]

C14_Runs ==
    \A w \in Ranks :
        (w \in Active /\ args.distill /\ pc[w] = "post_load") ~> (pc[w] = "done")

C14_EvaluatesCheckpoint ==
    /\ [](\A w \in Active : C14_Loaded(w) /\ C14_Order(w))
    /\ [][\A w \in Active : C14_Step(w)]_vars
    /\ C14_Runs

\* the test evaluation of the student has run on the parameters saved after
\* the first epoch, which had the best mAP, not on those of the last epoch,
\* and after the evaluation of the teacher
C14_Witness ==
    /\ program = "mimic_runner" /\ args.distill /\ ~args.skip_teacher_eval
    /\ pc[0] = "done" /\ epoch[0] = MaxEpochs
    /\ optimizer[0].steps = PrevCkpt.optimizer.steps + MaxEpochs * NumBatches
    /\ ckpt_file.optimizer.steps = PrevCkpt.optimizer.steps + NumBatches
    /\ Len(evaluated[0]) = 2
    /\ evaluated[0][1].model = "teacher"
    /\ evaluated[0][2] = [model |-> "student",
                          params |-> PrevCkpt.model.params + NumBatches,
                          frozen |-> PrevCkpt.model.frozen]

====
